---- MODULE Spec2Model ----
(***************************************************************************)
(* Model of the conversation-tree layout engine of Clarity                 *)
(* (src/AI-ATL-Project-main/src/Context_Trees.tsx): the module-level       *)
(* Position Store `lockedPositions`, the React state `treeData`, the       *)
(* layout pass `layoutNodes` with its helpers, and the handlers that       *)
(* mutate the tree or the store (send prompt, response arrival with id     *)
(* rename, click, drag, delete with confirmation).                         *)
(*                                                                         *)
(* Identifiers: the k-th prompt creates the temporary id `temp_<ms>`,      *)
(* modelled as -k; the id the backend assigns to it is modelled as k;      *)
(* null is 0.  A JS Map iterates in insertion order, so the Position Store *)
(* is a sequence of entries [id, x, y].                                    *)
(***************************************************************************)
EXTENDS Integers, Sequences, FiniteSets, TLC

VARIABLES nodes, activeNodeId, lockedPositions, nodeToDelete, isLoading,
          fetching, streaming, nextId, layoutDue, dragCount,
          dragged, shiftLog, beforeDelete, lastDrag

\* nodes, activeNodeId: treeData.  lockedPositions: the Position Store.
\* nodeToDelete, isLoading: React state of the component.  fetching,
\* streaming: prompts whose request, or whose streaming interval, is
\* outstanding.  nextId: number of the next prompt.  layoutDue: treeData
\* has changed and the layout effect has not run yet; the effect runs
\* before the next event is handled.
\* History variables, read by the properties only: dragCount (drags so
\* far), dragged (ids whose entry was written by a drag), shiftLog (the
\* calls of shiftBranchRight made by the layout pass that has just run),
\* beforeDelete (the tree and the store as the last confirmed deletion
\* found them, kept until the layout pass that follows has run), lastDrag
\* (the rendered position of each node dragged since the last layout pass).
vars == <<nodes, activeNodeId, lockedPositions, nodeToDelete, isLoading,
          fetching, streaming, nextId, layoutDue, dragCount,
          dragged, shiftLog, beforeDelete, lastDrag>>

\* ---------------------------------------------------------------- bounds
\* Spec: prompts sent, and the last prompt that may be sent while an
\* earlier response is outstanding
MaxNodes == 4
MaxOverlap == 2
\* SpecDrag: prompts sent and drags made
MaxDragNodes == 3
MaxDrags == 1
\* SpecInsert: as for Spec
MaxInsertNodes == 6
MaxInsertOverlap == 3
\* SpecForest: nodes of a snapshot handed to the layout pass
MaxForestNodes == 5
\* SpecCeiling: length of the longest chain of dragged nodes
MaxChain == 26
\* SpecBranch: prompts sent and drags made
MaxBranchNodes == 4
MaxBranchDrags == 1

\* ------------------------------------------------------------- constants
nodeWidth == 380
nodeHeight == 140
verticalSpacing == 180
horizontalSpacing == 450
minHorizontalGap == 50
overlapHeightGap == 20
maxIterations == 50
NULL == 0

\* Rendered positions a drag may report (change.position): the stored
\* anchors (x + nodeWidth/2) are (0, 360), on the layout grid where a
\* grandchild of the root is placed, and (250, 360), off the grid.
DragXs == {-190, 60}
DragYs == {360}

Abs(v) == IF v < 0 THEN -v ELSE v
Max(a, b) == IF a > b THEN a ELSE b

\* ------------------------------------------------------ Position Store
\* Map.prototype.has
Has(lp, id) == \E i \in 1..Len(lp) : lp[i].id = id

IndexOf(lp, id) == CHOOSE i \in 1..Len(lp) : lp[i].id = id

\* Map.prototype.get (only used where Has holds)
Get(lp, id) == lp[IndexOf(lp, id)]

\* Map.prototype.set: an existing key keeps its place in the iteration
\* order, a new key is appended
MapSet(lp, id, px, py) ==
    IF Has(lp, id)
    THEN [lp EXCEPT ![IndexOf(lp, id)] = [id |-> id, x |-> px, y |-> py]]
    ELSE Append(lp, [id |-> id, x |-> px, y |-> py])

\* Map.prototype.delete
MapDelete(lp, id) == SelectSeq(lp, LAMBDA e : e.id # id)

Keys(lp) == {lp[i].id : i \in 1..Len(lp)}

\* -------------------------------------------------------------- helpers
wouldOverlap(p1, p2) ==
    /\ Abs(p1.x - p2.x) < nodeWidth + minHorizontalGap
    /\ Abs(p1.y - p2.y) < nodeHeight + overlapHeightGap

RECURSIVE getAllDescendants(_, _)
RECURSIVE DescendantsOfChildren(_, _, _)
DescendantsOfChildren(children, i, allNodes) ==
    IF i > Len(children) THEN <<>>
    ELSE <<children[i].id>> \o getAllDescendants(children[i].id, allNodes)
         \o DescendantsOfChildren(children, i + 1, allNodes)

getAllDescendants(nodeId, allNodes) ==
    DescendantsOfChildren(SelectSeq(allNodes, LAMBDA n : n.parentId = nodeId),
                          1, allNodes)

\* nodesToShift.forEach: an entry moves once for each time its id is listed
ShiftEach(ids, shiftAmount, lp) ==
    [k \in 1..Len(lp) |->
        [lp[k] EXCEPT !.x = @ + shiftAmount *
            Cardinality({i \in 1..Len(ids) : ids[i] = lp[k].id})]]

\* Faulty branch mover: moves the node and forgets its descendants
shiftNodeOnly(nodeId, shiftAmount, allNodes, lp) ==
    ShiftEach(<<nodeId>>, shiftAmount, lp)

\* shiftBranchLeft of the source: the branch moves left instead of right
shiftBranchLeft(nodeId, shiftAmount, allNodes, lp) ==
    ShiftEach(<<nodeId>> \o getAllDescendants(nodeId, allNodes),
              0 - shiftAmount, lp)

shiftBranchRight(nodeId, shiftAmount, allNodes, lp) ==
    ShiftEach(<<nodeId>> \o getAllDescendants(nodeId, allNodes),
              shiftAmount, lp)


\* The state a layout pass threads through its loops: lp is the Position
\* Store; the other fields record what the pass did.  log: the calls of
\* shiftBranchRight, each with the store before and after it.  iterations,
\* hasOverlap: the loop variables of the collision loop that ran last, as
\* the loop left them.  placed: the lockedPositions.set calls of the pass.
\* One call of shiftBranchRight made by a layout pass:
ShiftLogged(st, nodeId, shiftAmount, allNodes) ==
    LET after == shiftBranchRight(nodeId, shiftAmount, allNodes, st.lp)
    IN [st EXCEPT
          !.lp = after,
          !.log = Append(st.log, [id |-> nodeId, amount |-> shiftAmount,
                                  before |-> st.lp, after |-> after])]

RECURSIVE RightmostOver(_, _, _, _)
RightmostOver(ids, i, lp, rightmostX) ==
    IF i > Len(ids) THEN rightmostX
    ELSE RightmostOver(ids, i + 1, lp,
                       IF Has(lp, ids[i]) /\ Get(lp, ids[i]).x > rightmostX
                       THEN Get(lp, ids[i]).x ELSE rightmostX)

getRightmostDescendantX(nodeId, allNodes, lp) ==
    RightmostOver(getAllDescendants(nodeId, allNodes), 1, lp,
                  IF Has(lp, nodeId) THEN Get(lp, nodeId).x ELSE 0)

\* Array.prototype.find / findIndex on the node list: index of the first
\* node with this id, 0 when there is none
FindIdx(allNodes, id) ==
    IF \E i \in 1..Len(allNodes) : allNodes[i].id = id
    THEN CHOOSE i \in 1..Len(allNodes) :
            /\ allNodes[i].id = id
            /\ \A j \in 1..(i - 1) : allNodes[j].id # id
    ELSE 0

\* Faulty ancestorSiblings.forEach: shifts every placed sibling, whatever
\* its x
RECURSIVE ShiftSiblingsAll(_, _, _, _, _)
ShiftSiblingsAll(sibs, i, parentId, allNodes, st) ==
    IF i > Len(sibs) THEN st
    ELSE ShiftSiblingsAll(sibs, i + 1, parentId, allNodes,
            IF Has(st.lp, sibs[i].id)
            THEN ShiftLogged(st, sibs[i].id, horizontalSpacing, allNodes)
            ELSE st)

RECURSIVE ShiftSiblings(_, _, _, _, _)
ShiftSiblings(sibs, i, parentId, allNodes, st) ==
    IF i > Len(sibs) THEN st
    ELSE ShiftSiblings(sibs, i + 1, parentId, allNodes,
            IF /\ Has(st.lp, sibs[i].id)
               /\ Get(st.lp, sibs[i].id).x > Get(st.lp, parentId).x
            THEN ShiftLogged(st, sibs[i].id, horizontalSpacing, allNodes)
            ELSE st)

RECURSIVE AncestorWalk(_, _, _, _)
AncestorWalk(currentNode, parentId, allNodes, st) ==
    IF currentNode.parentId = NULL THEN st
    ELSE LET ai == FindIdx(allNodes, currentNode.parentId) IN
         IF ai = 0 THEN st
         ELSE LET ancestor == allNodes[ai]
                  ancestorSiblings ==
                      SelectSeq(allNodes, LAMBDA n :
                          n.parentId = ancestor.parentId /\ n.id # ancestor.id)
              IN AncestorWalk(ancestor, parentId, allNodes,
                     ShiftSiblings(ancestorSiblings, 1, parentId, allNodes, st))

shiftAllAncestorSiblings(nodeId, allNodes, st) ==
    LET ni == FindIdx(allNodes, nodeId) IN
    IF ni = 0 \/ allNodes[ni].parentId = NULL THEN st
    ELSE IF FindIdx(allNodes, allNodes[ni].parentId) = 0 THEN st
    ELSE IF ~Has(st.lp, allNodes[ni].parentId) THEN st
    ELSE AncestorWalk(allNodes[ni], allNodes[ni].parentId, allNodes, st)

\* Faulty scan: it shifts what overlaps the candidate but does not raise
\* hasOverlap, so the loop stops after the pass
RECURSIVE CollisionScanQuiet(_, _, _, _, _, _)
CollisionScanQuiet(i, desiredPos, nodeId, allNodes, st, hasOverlap) ==
    IF i > Len(st.lp) THEN [st |-> st, hasOverlap |-> hasOverlap]
    ELSE CollisionScanQuiet(i + 1, desiredPos, nodeId, allNodes,
            IF st.lp[i].id # nodeId /\ wouldOverlap(desiredPos, st.lp[i])
            THEN ShiftLogged(st, st.lp[i].id, horizontalSpacing, allNodes)
            ELSE st,
            hasOverlap)

\* One scan of the Map's entries (the for..of loop): the entries are read
\* live, so an entry shifted earlier in the scan is compared where it now is.
RECURSIVE CollisionScan(_, _, _, _, _, _)
CollisionScan(i, desiredPos, nodeId, allNodes, st, hasOverlap) ==
    IF i > Len(st.lp) THEN [st |-> st, hasOverlap |-> hasOverlap]
    ELSE IF st.lp[i].id # nodeId /\ wouldOverlap(desiredPos, st.lp[i])
         THEN CollisionScan(i + 1, desiredPos, nodeId, allNodes,
                  ShiftLogged(st, st.lp[i].id, horizontalSpacing, allNodes),
                  TRUE)
         ELSE CollisionScan(i + 1, desiredPos, nodeId, allNodes, st, hasOverlap)

\* Faulty collision loop: it shifts nothing, so an overlap it finds stays,
\* and it gives up only after twice the ceiling
RECURSIVE CollisionLoopOverrun(_, _, _, _, _, _)
CollisionLoopOverrun(iterations, hasOverlap, desiredPos, nodeId, allNodes, st) ==
    IF hasOverlap /\ iterations < 2 * maxIterations
    THEN CollisionLoopOverrun(iterations + 1,
             \E i \in 1..Len(st.lp) :
                 st.lp[i].id # nodeId /\ wouldOverlap(desiredPos, st.lp[i]),
             desiredPos, nodeId, allNodes, st)
    ELSE [st EXCEPT !.iterations = iterations, !.hasOverlap = hasOverlap]

\* while (hasOverlap && iterations < maxIterations)
RECURSIVE CollisionLoop(_, _, _, _, _, _)
CollisionLoop(iterations, hasOverlap, desiredPos, nodeId, allNodes, st) ==
    IF hasOverlap /\ iterations < maxIterations
    THEN LET r == CollisionScan(1, desiredPos, nodeId, allNodes, st, FALSE)
         IN CollisionLoop(iterations + 1, r.hasOverlap, desiredPos, nodeId,
                          allNodes, r.st)
    ELSE [st EXCEPT !.iterations = iterations, !.hasOverlap = hasOverlap]

resolveCollisions(desiredPos, nodeId, allNodes, st) ==
    CollisionLoop(0, TRUE, desiredPos, nodeId, allNodes, st)

\* [...treeData.nodes].sort by timestamp (a stable sort)
RECURSIVE InsertSorted(_, _)
InsertSorted(sorted, n) ==
    IF sorted = <<>> THEN <<n>>
    ELSE IF sorted[Len(sorted)].timestamp <= n.timestamp
         THEN Append(sorted, n)
         ELSE Append(InsertSorted(SubSeq(sorted, 1, Len(sorted) - 1), n),
                     sorted[Len(sorted)])

RECURSIVE SortPrefix(_, _)
SortPrefix(ns, k) ==
    IF k = 0 THEN <<>> ELSE InsertSorted(SortPrefix(ns, k - 1), ns[k])

sortByTimestamp(ns) == SortPrefix(ns, Len(ns))

\* Faulty sibling index: the number of siblings in the snapshot less one,
\* which is the node's index only while the node is the youngest sibling
siblingIndexLast(node, sortedNodes) ==
    Len(SelectSeq(sortedNodes, LAMBDA n : n.parentId = node.parentId)) - 1

\* 0-based index of the node among the nodes sharing its parent id
siblingIndexOf(node, sortedNodes) ==
    FindIdx(SelectSeq(sortedNodes, LAMBDA n : n.parentId = node.parentId),
            node.id) - 1

\* Faulty candidate of a first child: one column to the right of the parent
firstChildBeside(parentPos) ==
    [x |-> parentPos.x + horizontalSpacing, y |-> parentPos.y + verticalSpacing]

\* Candidate of a first child
firstChildPos(parentPos) ==
    [x |-> parentPos.x, y |-> parentPos.y + verticalSpacing]

\* Faulty candidate of a branch: in the row of the parent
branchBesideParent(node, parentPos, siblingIndex, sortedNodes, lp) ==
    [x |-> parentPos.x + siblingIndex * horizontalSpacing, y |-> parentPos.y]

\* Candidate of a branch (sibling index > 0)
branchPos(node, parentPos, siblingIndex, sortedNodes, lp) ==
    LET rightmostDescendantX ==
            IF FindIdx(sortedNodes, node.parentId) # 0
            THEN getRightmostDescendantX(node.parentId, sortedNodes, lp)
            ELSE parentPos.x
    IN [x |-> Max(parentPos.x + siblingIndex * horizontalSpacing,
                  rightmostDescendantX + horizontalSpacing),
        y |-> parentPos.y + verticalSpacing]

\* Faulty placement: a node whose collision loop stops at the ceiling with
\* an overlap found in its last pass is not stored
placeNodeUnlessCeiling(node, sortedNodes, st) ==
    IF node.parentId = NULL
    THEN [st EXCEPT
            !.lp = MapSet(st.lp, node.id, 0, 0),
            !.placed = Append(st.placed,
                [id |-> node.id, siblingIndex |-> 0,
                 pos |-> [x |-> 0, y |-> 0], before |-> st.lp,
                 displaced |-> st, resolved |-> st])]
    ELSE IF ~Has(st.lp, node.parentId) THEN st
    ELSE LET parentPos == Get(st.lp, node.parentId)
             siblingIndex == siblingIndexOf(node, sortedNodes)
             desiredPos == IF siblingIndex = 0
                           THEN firstChildPos(parentPos)
                           ELSE branchPos(node, parentPos, siblingIndex,
                                          sortedNodes, st.lp)
             shifted == IF siblingIndex = 0 THEN st
                        ELSE shiftAllAncestorSiblings(node.id, sortedNodes, st)
             resolved == resolveCollisions(desiredPos, node.id, sortedNodes,
                                           shifted)
         IN [resolved EXCEPT
                !.lp = IF resolved.hasOverlap /\ resolved.iterations = maxIterations
                       THEN resolved.lp
                       ELSE MapSet(resolved.lp, node.id,
                                   desiredPos.x, desiredPos.y),
                !.placed = Append(resolved.placed,
                    [id |-> node.id, siblingIndex |-> siblingIndex,
                     pos |-> desiredPos, before |-> st.lp,
                     displaced |-> shifted, resolved |-> resolved])]

\* Body of the placement loop of layoutNodes for one node that has no
\* stored position (what line 176 lets through)
placeNode(node, sortedNodes, st) ==
    IF node.parentId = NULL
    THEN [st EXCEPT
            !.lp = MapSet(st.lp, node.id, 0, 0),
            !.placed = Append(st.placed,
                [id |-> node.id, siblingIndex |-> 0,
                 pos |-> [x |-> 0, y |-> 0], before |-> st.lp,
                 displaced |-> st, resolved |-> st])]
    ELSE IF ~Has(st.lp, node.parentId) THEN st
    ELSE LET parentPos == Get(st.lp, node.parentId)
             siblingIndex == siblingIndexOf(node, sortedNodes)
             desiredPos == IF siblingIndex = 0
                           THEN firstChildPos(parentPos)
                           ELSE branchPos(node, parentPos, siblingIndex,
                                          sortedNodes, st.lp)
             shifted == IF siblingIndex = 0 THEN st
                        ELSE shiftAllAncestorSiblings(node.id, sortedNodes, st)
             resolved == resolveCollisions(desiredPos, node.id, sortedNodes,
                                           shifted)
         IN [resolved EXCEPT
                !.lp = MapSet(resolved.lp, node.id, desiredPos.x, desiredPos.y),
                !.placed = Append(resolved.placed,
                    [id |-> node.id, siblingIndex |-> siblingIndex,
                     pos |-> desiredPos, before |-> st.lp,
                     displaced |-> shifted, resolved |-> resolved])]

\* Faulty selection: the lockedPositions.has test is missing, so the pass
\* places every node again
PlacedOrNot(sortedNodes, lp) == sortedNodes

\* The nodes of sortedNodes that pass the test of line 176: those without a
\* stored position when the pass starts. The body stores a position for
\* its own node only (lines 177 and 241), so a node that has one when its
\* turn comes had it from the start.
Unplaced(sortedNodes, lp) ==
    LET NoPosition(n) == ~Has(lp, n.id)
    IN SelectSeq(sortedNodes, NoPosition)

\* sortedNodes.forEach, from the i-th of the nodes in todo on
RECURSIVE PlaceAll(_, _, _, _)
PlaceAll(todo, sortedNodes, i, st) ==
    IF i > Len(todo) THEN st
    ELSE PlaceAll(todo, sortedNodes, i + 1,
                  placeNode(todo[i], sortedNodes, st))

\* The placement part of layoutNodes: the Position Store it leaves, and
\* the branch shifts it made
layoutNodes(treeNodes, lp) ==
    PlaceAll(Unplaced(sortByTimestamp(treeNodes), lp),
             sortByTimestamp(treeNodes), 1,
             [lp |-> lp, log |-> <<>>, iterations |-> 0, hasOverlap |-> FALSE,
              placed |-> <<>>])

\* The walk of isNodeInActivePath from currentId up the parent ids, looking
\* for nodeId.  nodeMap keeps the last node of each id.  A walk that has
\* made more steps than the tree has nodes, plus one for an id that names
\* no node, is on a cycle of parent ids and never returns.
RECURSIVE activePathWalk(_, _, _, _)
activePathWalk(currentId, nodeId, treeNodes, steps) ==
    IF steps > Len(treeNodes) + 1 THEN [returns |-> FALSE, value |-> FALSE]
    ELSE IF currentId = NULL THEN [returns |-> TRUE, value |-> FALSE]
    ELSE IF currentId = nodeId THEN [returns |-> TRUE, value |-> TRUE]
    ELSE LET mapped == SelectSeq(treeNodes, LAMBDA n : n.id = currentId)
         IN activePathWalk(IF mapped = <<>> THEN NULL
                           ELSE mapped[Len(mapped)].parentId,
                           nodeId, treeNodes, steps + 1)

\* Faulty flag: the active node alone
isActiveOnly(nodeId, treeNodes, active) ==
    [returns |-> TRUE, value |-> active # NULL /\ active = nodeId]

isNodeInActivePath(nodeId, treeNodes, active) ==
    IF active = NULL THEN [returns |-> TRUE, value |-> FALSE]
    ELSE activePathWalk(active, nodeId, treeNodes, 1)

\* Faulty emission: the stored anchor itself as the rendered position
emitAtAnchor(treeNodes, lp, active) ==
    LET sortedNodes == sortByTimestamp(treeNodes)
    IN [i \in 1..Len(sortedNodes) |->
          [id |-> sortedNodes[i].id,
           x |-> IF Has(lp, sortedNodes[i].id)
                 THEN Get(lp, sortedNodes[i].id).x ELSE 0,
           y |-> IF Has(lp, sortedNodes[i].id)
                 THEN Get(lp, sortedNodes[i].id).y ELSE 0,
           isActive |-> sortedNodes[i].id = active,
           isInActivePath |->
               isNodeInActivePath(sortedNodes[i].id, treeNodes, active).value]]

\* The positioned nodes layoutNodes returns, given the store it left
emitNodes(treeNodes, lp, active) ==
    LET sortedNodes == sortByTimestamp(treeNodes)
    IN [i \in 1..Len(sortedNodes) |->
          LET id == sortedNodes[i].id
              position == IF Has(lp, id)
                          THEN [x |-> Get(lp, id).x, y |-> Get(lp, id).y]
                          ELSE [x |-> 0, y |-> 0]
          IN [id |-> id,
              x |-> position.x - (nodeWidth \div 2),
              y |-> position.y,
              isActive |-> id = active,
              isInActivePath |-> isNodeInActivePath(id, treeNodes, active).value]]

\* Faulty edges: the edge out of the active node is the animated one
emitEdgesFromActive(treeNodes, active) ==
    LET sortedNodes == sortByTimestamp(treeNodes)
        withParent == SelectSeq(sortedNodes, LAMBDA n : n.parentId # NULL)
    IN [i \in 1..Len(withParent) |->
          [source |-> withParent[i].parentId, target |-> withParent[i].id,
           animated |-> active = withParent[i].parentId]]

\* The edges layoutNodes returns: one per node with a parent id, whether
\* or not a node with that id exists
emitEdges(treeNodes, active) ==
    LET sortedNodes == sortByTimestamp(treeNodes)
        withParent == SelectSeq(sortedNodes, LAMBDA n : n.parentId # NULL)
    IN [i \in 1..Len(withParent) |->
          [source |-> withParent[i].parentId, target |-> withParent[i].id,
           animated |-> active = withParent[i].id]]

\* ---------------------------------------------------------- tree queries
NodeIds == {nodes[i].id : i \in 1..Len(nodes)}

\* Faulty descendant query: the direct children only
childrenOnly(nodeId, allNodes) ==
    LET matching == SelectSeq(allNodes, LAMBDA n : n.parentId = nodeId)
    IN [i \in 1..Len(matching) |-> matching[i].id]

\* getAllDescendants of the component (the useCallback used by deletion)
RECURSIVE componentGetAllDescendants(_, _)
RECURSIVE ComponentDescendantsOf(_, _, _)
ComponentDescendantsOf(children, i, allNodes) ==
    IF i > Len(children) THEN <<>>
    ELSE <<children[i]>> \o componentGetAllDescendants(children[i], allNodes)
         \o ComponentDescendantsOf(children, i + 1, allNodes)

componentGetAllDescendants(nodeId, allNodes) ==
    LET matching == SelectSeq(allNodes, LAMBDA n : n.parentId = nodeId)
        children == [i \in 1..Len(matching) |-> matching[i].id]
    IN ComponentDescendantsOf(children, 1, allNodes)

SeqToSet(q) == {q[i] : i \in 1..Len(q)}

\* ------------------------------------------------------------------ Init
Init ==
    /\ nodes = <<>>
    /\ activeNodeId = NULL
    /\ lockedPositions = <<>>
    /\ nodeToDelete = NULL
    /\ isLoading = FALSE
    /\ fetching = {}
    /\ streaming = {}
    /\ nextId = 1
    /\ layoutDue = FALSE
    /\ dragCount = 0
    /\ dragged = {}
    /\ shiftLog = <<>>
    /\ beforeDelete = <<>>
    /\ lastDrag = <<>>

\* --------------------------------------------------------------- actions
\* Faulty send: the new node is appended as a root
sendAsRoot ==
    /\ ~layoutDue
    /\ ~isLoading \/ Len(nodes) = 0
    /\ nodes' = Append(nodes, [id |-> -nextId, parentId |-> NULL,
                               timestamp |-> nextId])
    /\ activeNodeId' = -nextId
    /\ isLoading' = TRUE
    /\ fetching' = fetching \cup {nextId}
    /\ nextId' = nextId + 1
    /\ layoutDue' = TRUE
    /\ beforeDelete' = <<>>
    /\ shiftLog' = <<>>
    /\ UNCHANGED <<lockedPositions, nodeToDelete, streaming, dragCount,
                   dragged, lastDrag>>

\* handleSendPrompt up to the request: appends the temporary node under the
\* active node and makes it active.  The guard lets a prompt through while a
\* request is loading only when the tree is empty (the example-prompt path).
handleSendPrompt ==
    /\ ~layoutDue
    /\ ~isLoading \/ Len(nodes) = 0
    /\ nodes' = Append(nodes, [id |-> -nextId, parentId |-> activeNodeId,
                               timestamp |-> nextId])
    /\ activeNodeId' = -nextId
    /\ isLoading' = TRUE
    /\ fetching' = fetching \cup {nextId}
    /\ nextId' = nextId + 1
    /\ layoutDue' = TRUE
    /\ beforeDelete' = <<>>
    /\ shiftLog' = <<>>
    /\ UNCHANGED <<lockedPositions, nodeToDelete, streaming, dragCount,
                   dragged, lastDrag>>

\* The request of prompt k succeeds: the streaming interval starts and the
\* finally block clears isLoading.
FetchOk(k) ==
    /\ ~layoutDue
    /\ k \in fetching
    /\ fetching' = fetching \ {k}
    /\ streaming' = streaming \cup {k}
    /\ isLoading' = FALSE
    /\ beforeDelete' = <<>>
    /\ shiftLog' = <<>>
    /\ UNCHANGED <<nodes, activeNodeId, lockedPositions, nodeToDelete, nextId,
                   layoutDue, dragCount, dragged, lastDrag>>

\* The request of prompt k fails: the catch block rewrites the node's
\* response text (a new treeData object) and finally clears isLoading.
FetchFail(k) ==
    /\ ~layoutDue
    /\ k \in fetching
    /\ fetching' = fetching \ {k}
    /\ isLoading' = FALSE
    /\ layoutDue' = TRUE
    /\ beforeDelete' = <<>>
    /\ shiftLog' = <<>>
    /\ UNCHANGED <<nodes, activeNodeId, lockedPositions, nodeToDelete,
                   streaming, nextId, dragCount, dragged, lastDrag>>

\* Faulty position transfer: the temporary entry is dropped and nothing is
\* stored under the permanent id
renameForgetsPosition(lp, tempNodeId, nodeId) == MapDelete(lp, tempNodeId)

\* Position transfer of the stream completion
renamePositions(lp, tempNodeId, nodeId) ==
    IF Has(lp, tempNodeId)
    THEN MapDelete(MapSet(lp, nodeId, Get(lp, tempNodeId).x,
                          Get(lp, tempNodeId).y),
                   tempNodeId)
    ELSE lp

\* Node list after the stream completion
renameNodes(ns, tempNodeId, nodeId) ==
    [i \in 1..Len(ns) |->
        IF ns[i].id = tempNodeId THEN [ns[i] EXCEPT !.id = nodeId] ELSE ns[i]]

\* The last tick of the streaming interval of prompt k: the temporary id
\* -k is replaced by the permanent id k, which becomes the active node.
StreamDone(k) ==
    /\ ~layoutDue
    /\ k \in streaming
    /\ streaming' = streaming \ {k}
    /\ lockedPositions' = renamePositions(lockedPositions, -k, k)
    /\ nodes' = renameNodes(nodes, -k, k)
    /\ activeNodeId' = k
    /\ layoutDue' = TRUE
    /\ dragged' = IF -k \in dragged THEN (dragged \ {-k}) \cup {k} ELSE dragged
    /\ lastDrag' = renamePositions(lastDrag, -k, k)
    /\ beforeDelete' = <<>>
    /\ shiftLog' = <<>>
    /\ UNCHANGED <<nodeToDelete, isLoading, fetching, nextId, dragCount>>

onNodeClick(id) ==
    /\ ~layoutDue
    /\ nodeToDelete = NULL
    /\ id \in NodeIds
    /\ activeNodeId' = id
    /\ layoutDue' = TRUE
    /\ beforeDelete' = <<>>
    /\ shiftLog' = <<>>
    /\ UNCHANGED <<nodes, lockedPositions, nodeToDelete, isLoading, fetching,
                   streaming, nextId, dragCount, dragged, lastDrag>>

\* Faulty drag: the placed descendants of the node move with it
dragMovesBranch(id, px, py) ==
    /\ ~layoutDue
    /\ nodeToDelete = NULL
    /\ id \in NodeIds
    /\ lockedPositions' =
          LET below == SeqToSet(getAllDescendants(id, nodes))
              dx == IF Has(lockedPositions, id)
                    THEN px + (nodeWidth \div 2) - Get(lockedPositions, id).x
                    ELSE 0
              dy == IF Has(lockedPositions, id)
                    THEN py - Get(lockedPositions, id).y ELSE 0
              moved == [i \in 1..Len(lockedPositions) |->
                          IF lockedPositions[i].id \in below
                          THEN [lockedPositions[i] EXCEPT !.x = @ + dx,
                                                          !.y = @ + dy]
                          ELSE lockedPositions[i]]
          IN MapSet(moved, id, px + (nodeWidth \div 2), py)
    /\ dragged' = dragged \cup {id}
    /\ lastDrag' = MapSet(lastDrag, id, px, py)
    /\ dragCount' = dragCount + 1
    /\ beforeDelete' = <<>>
    /\ shiftLog' = <<>>
    /\ UNCHANGED <<nodes, activeNodeId, nodeToDelete, isLoading, fetching,
                   streaming, nextId, layoutDue>>

\* onNodesChange with one position change of node id to (px, py)
onNodesChange(id, px, py) ==
    /\ ~layoutDue
    /\ nodeToDelete = NULL
    /\ id \in NodeIds
    /\ lockedPositions' = MapSet(lockedPositions, id,
                                 px + (nodeWidth \div 2), py)
    /\ dragged' = dragged \cup {id}
    /\ lastDrag' = MapSet(lastDrag, id, px, py)
    /\ dragCount' = dragCount + 1
    /\ beforeDelete' = <<>>
    /\ shiftLog' = <<>>
    /\ UNCHANGED <<nodes, activeNodeId, nodeToDelete, isLoading, fetching,
                   streaming, nextId, layoutDue>>

\* Faulty delete button: deletes at once, without the dialog
deleteAtOnce(id) ==
    /\ ~layoutDue
    /\ nodeToDelete = NULL
    /\ id \in NodeIds
    /\ nodes' = SelectSeq(nodes, LAMBDA n :
                    n.id \notin {id} \cup
                        {nodes[i].id : i \in {j \in 1..Len(nodes) :
                                                  nodes[j].parentId = id}})
    /\ layoutDue' = TRUE
    /\ beforeDelete' = <<>>
    /\ shiftLog' = <<>>
    /\ UNCHANGED <<activeNodeId, lockedPositions, nodeToDelete, isLoading,
                   fetching, streaming, nextId, dragCount, dragged,
                   lastDrag>>

\* The delete button of a rendered node: onDelete = setNodeToDelete
PressDelete(id) ==
    /\ ~layoutDue
    /\ nodeToDelete = NULL
    /\ id \in NodeIds
    /\ nodeToDelete' = id
    /\ beforeDelete' = <<>>
    /\ shiftLog' = <<>>
    /\ UNCHANGED <<nodes, activeNodeId, lockedPositions, isLoading, fetching,
                   streaming, nextId, layoutDue, dragCount, dragged,
                   lastDrag>>

\* Cancel button or click on the backdrop of the confirmation dialog
CancelDelete ==
    /\ ~layoutDue
    /\ nodeToDelete # NULL
    /\ nodeToDelete' = NULL
    /\ beforeDelete' = <<>>
    /\ shiftLog' = <<>>
    /\ UNCHANGED <<nodes, activeNodeId, lockedPositions, isLoading, fetching,
                   streaming, nextId, layoutDue, dragCount, dragged,
                   lastDrag>>

\* Faulty deletions: one without the early return for an id that is not
\* in the tree, one that forgets to restore the root's position, one that
\* makes the first surviving node active instead of the last
deleteWith(nodeId, prevNodes, prevActive, lp, guarded, keepRoot, pickLast) ==
    IF guarded /\ FindIdx(prevNodes, nodeId) = 0
    THEN [nodes |-> prevNodes, activeNodeId |-> prevActive, lp |-> lp,
          changed |-> FALSE]
    ELSE LET idsToDelete ==
                 {nodeId} \cup SeqToSet(componentGetAllDescendants(nodeId, prevNodes))
             remainingNodes ==
                 SelectSeq(prevNodes, LAMBDA n : n.id \notin idsToDelete)
             afterDelete == SelectSeq(lp, LAMBDA e : e.id \notin idsToDelete)
             roots == SelectSeq(remainingNodes, LAMBDA n : n.parentId = NULL)
             cleared == IF keepRoot /\ Len(roots) > 0
                           /\ Has(afterDelete, roots[1].id)
                        THEN <<Get(afterDelete, roots[1].id)>>
                        ELSE <<>>
             newActiveNodeId ==
                 IF prevActive \in idsToDelete
                 THEN IF Len(remainingNodes) > 0
                      THEN remainingNodes[IF pickLast THEN Len(remainingNodes)
                                          ELSE 1].id
                      ELSE NULL
                 ELSE prevActive
         IN [nodes |-> remainingNodes, activeNodeId |-> newActiveNodeId,
             lp |-> cleared, changed |-> TRUE]

deleteUnguarded(nodeId, prevNodes, prevActive, lp) ==
    deleteWith(nodeId, prevNodes, prevActive, lp, FALSE, TRUE, TRUE)

deleteForgetsRoot(nodeId, prevNodes, prevActive, lp) ==
    deleteWith(nodeId, prevNodes, prevActive, lp, TRUE, FALSE, TRUE)

deleteActivatesFirst(nodeId, prevNodes, prevActive, lp) ==
    deleteWith(nodeId, prevNodes, prevActive, lp, TRUE, TRUE, FALSE)

\* Faulty deletion: the store loses the entries of the deleted branch only
deleteBranchOnly(nodeId, prevNodes, prevActive, lp) ==
    LET r == deleteWith(nodeId, prevNodes, prevActive, lp, TRUE, TRUE, TRUE)
        idsToDelete ==
            {nodeId} \cup SeqToSet(componentGetAllDescendants(nodeId, prevNodes))
    IN IF r.changed
       THEN [r EXCEPT !.lp = SelectSeq(lp, LAMBDA e : e.id \notin idsToDelete)]
       ELSE r

\* The updater of handleDeleteNode: the tree, the active id and the store
\* it leaves
handleDeleteNode(nodeId, prevNodes, prevActive, lp) ==
    IF FindIdx(prevNodes, nodeId) = 0
    THEN [nodes |-> prevNodes, activeNodeId |-> prevActive, lp |-> lp,
          changed |-> FALSE]
    ELSE LET idsToDelete ==
                 {nodeId} \cup SeqToSet(componentGetAllDescendants(nodeId, prevNodes))
             remainingNodes ==
                 SelectSeq(prevNodes, LAMBDA n : n.id \notin idsToDelete)
             afterDelete == SelectSeq(lp, LAMBDA e : e.id \notin idsToDelete)
             roots == SelectSeq(remainingNodes, LAMBDA n : n.parentId = NULL)
             cleared == IF Len(roots) > 0 /\ Has(afterDelete, roots[1].id)
                        THEN <<Get(afterDelete, roots[1].id)>>
                        ELSE <<>>
             newActiveNodeId ==
                 IF prevActive \in idsToDelete
                 THEN IF Len(remainingNodes) > 0
                      THEN remainingNodes[Len(remainingNodes)].id
                      ELSE NULL
                 ELSE prevActive
         IN [nodes |-> remainingNodes, activeNodeId |-> newActiveNodeId,
             lp |-> cleared, changed |-> TRUE]

\* Delete button of the confirmation dialog
ConfirmDelete ==
    /\ ~layoutDue
    /\ nodeToDelete # NULL
    /\ LET r == handleDeleteNode(nodeToDelete, nodes, activeNodeId,
                                 lockedPositions)
       IN /\ nodes' = r.nodes
          /\ activeNodeId' = r.activeNodeId
          /\ lockedPositions' = r.lp
          /\ layoutDue' = r.changed
          /\ dragged' = dragged \cap Keys(r.lp)
          /\ lastDrag' = SelectSeq(lastDrag, LAMBDA e :
                              \E i \in 1..Len(r.nodes) : r.nodes[i].id = e.id)
    /\ beforeDelete' = <<[id |-> nodeToDelete, nodes |-> nodes,
                         activeNodeId |-> activeNodeId,
                         lp |-> lockedPositions, relaid |-> FALSE]>>
    /\ shiftLog' = <<>>
    /\ nodeToDelete' = NULL
    /\ UNCHANGED <<isLoading, fetching, streaming, nextId, dragCount>>

\* The layout effect: runs after every change of treeData, and again
\* whenever the theme, the search text or the hovered node changes
LayoutPass ==
    /\ LET r == layoutNodes(nodes, lockedPositions)
       IN /\ lockedPositions' = r.lp
          /\ shiftLog' = r.log
    /\ layoutDue' = FALSE
    /\ beforeDelete' = IF beforeDelete # <<>> /\ ~beforeDelete[1].relaid
                       THEN <<[beforeDelete[1] EXCEPT !.relaid = TRUE]>>
                       ELSE <<>>
    /\ lastDrag' = <<>>
    /\ UNCHANGED <<nodes, activeNodeId, nodeToDelete, isLoading, fetching,
                   streaming, nextId, dragCount, dragged>>

\* ------------------------------------------------------- specifications
\* A response to an earlier prompt is still outstanding
Overlapping == fetching \cup streaming # {}

\* Spec: the tree operations (prompts, responses with their identifier
\* rename, failed requests, clicks, deletion with its confirmation dialog)
\* and the layout pass, in any interleaving.  The dialog covers the window,
\* so while it is open only confirm, cancel, the network and the streaming
\* timers act.
SendAny ==
    /\ nextId <= MaxNodes
    /\ nodeToDelete = NULL
    /\ Overlapping => nextId <= MaxOverlap
    /\ handleSendPrompt

Next ==
    \/ SendAny
    \/ \E k \in fetching : FetchOk(k)
    \/ \E k \in fetching : FetchFail(k)
    \/ \E k \in streaming : StreamDone(k)
    \/ \E id \in NodeIds : onNodeClick(id)
    \/ \E id \in NodeIds : PressDelete(id)
    \/ CancelDelete
    \/ ConfirmDelete
    \/ LayoutPass

Spec == Init /\ [][Next]_vars

\* SpecDrag: the same operations with user drags, each prompt sent after
\* the earlier responses have arrived.
SendAnswered ==
    /\ nextId <= MaxDragNodes
    /\ nodeToDelete = NULL
    /\ ~Overlapping
    /\ handleSendPrompt

DragAny ==
    /\ dragCount < MaxDrags
    /\ \E id \in NodeIds, px \in DragXs, py \in DragYs : onNodesChange(id, px, py)

NextDrag ==
    \/ SendAnswered
    \/ \E k \in fetching : FetchOk(k)
    \/ \E k \in streaming : StreamDone(k)
    \/ \E id \in NodeIds : onNodeClick(id)
    \/ DragAny
    \/ \E id \in NodeIds : PressDelete(id)
    \/ CancelDelete
    \/ ConfirmDelete
    \/ LayoutPass

SpecDrag == Init /\ [][NextDrag]_vars

\* SpecInsert: insertions only (prompts, responses with their identifier
\* rename, clicks and layout passes); no drag, no deletion.
SendInsert ==
    /\ nextId <= MaxInsertNodes
    /\ Overlapping => nextId <= MaxInsertOverlap
    /\ handleSendPrompt

NextInsert ==
    \/ SendInsert
    \/ \E k \in fetching : FetchOk(k)
    \/ \E k \in streaming : StreamDone(k)
    \/ \E id \in NodeIds : onNodeClick(id)
    \/ LayoutPass

SpecInsert == Init /\ [][NextInsert]_vars

\* SpecForest: layoutNodes as a function of the snapshot.  The snapshot is
\* any forest of up to MaxForestNodes nodes in creation order (each node is
\* a root or the child of an earlier node), the store starts empty, and the
\* layout pass runs on it.
RECURSIVE Forests(_)
Forests(n) ==
    IF n = 0 THEN {<<>>}
    ELSE {Append(f, [id |-> n, parentId |-> p, timestamp |-> n]) :
              f \in Forests(n - 1), p \in 0..(n - 1)}

InitForest ==
    /\ nodes \in UNION {Forests(n) : n \in 0..MaxForestNodes}
    /\ activeNodeId = NULL
    /\ lockedPositions = <<>>
    /\ nodeToDelete = NULL
    /\ isLoading = FALSE
    /\ fetching = {}
    /\ streaming = {}
    /\ nextId = Len(nodes) + 1
    /\ layoutDue = TRUE
    /\ dragCount = 0
    /\ dragged = {}
    /\ shiftLog = <<>>
    /\ beforeDelete = <<>>
    /\ lastDrag = <<>>

NextForest == LayoutPass

SpecForest == InitForest /\ [][NextForest]_vars

\* SpecCeiling: a prompt sent into a store that keeps the collision loop
\* busy.  The tree is the root (id 1) and a chain of `len` nodes (ids 2 ..
\* len + 1) whose first node was sent while the root still carried its
\* temporary id -1, so the chain hangs on a parent id that names no node.
\* A child of the root was then added and deleted, which cleared the
\* store but for the root and left the chain unplaced, and the user has
\* dragged the chain's nodes into a row, the deepest node first, so that
\* every node of the chain precedes its parent in the store.  The row is
\* at height cy, its nodes two columns apart, the first node of the chain
\* at x = cx, where it overlaps the candidate (0, 180) of the root's first
\* child and still overlaps it after one shift.  The root is the active
\* node.
ChainXs == {-350, -300, -250, -200, -150}
ChainYs == {100, 180, 260, 330}

ChainNodes(len) ==
    [i \in 1..(len + 1) |->
        [id |-> i,
         parentId |-> IF i = 1 THEN NULL ELSE IF i = 2 THEN -1 ELSE i - 1,
         timestamp |-> i]]

ChainStore(len, cx, cy) ==
    [i \in 1..(len + 1) |->
        IF i = 1 THEN [id |-> 1, x |-> 0, y |-> 0]
        ELSE [id |-> len + 3 - i,
              x |-> cx - (len + 1 - i) * 2 * horizontalSpacing,
              y |-> cy]]

InitCeiling ==
    \E len \in (maxIterations \div 2)..MaxChain, cx \in ChainXs, cy \in ChainYs :
        /\ nodes = ChainNodes(len)
        /\ activeNodeId = 1
        /\ lockedPositions = ChainStore(len, cx, cy)
        /\ nodeToDelete = NULL
        /\ isLoading = FALSE
        /\ fetching = {}
        /\ streaming = {}
        /\ nextId = len + 3
        /\ layoutDue = FALSE
        /\ dragCount = len
        /\ dragged = 2..(len + 1)
        /\ shiftLog = <<>>
        /\ beforeDelete = <<>>
        /\ lastDrag = <<>>

SendCeiling ==
    /\ nextId <= MaxChain + 3
    /\ handleSendPrompt

NextCeiling ==
    \/ SendCeiling
    \/ LayoutPass

SpecCeiling == InitCeiling /\ [][NextCeiling]_vars

\* SpecBranch: insertions and drags (prompts answered one at a time, clicks,
\* drags and layout passes); no deletion.
SendBranch ==
    /\ nextId <= MaxBranchNodes
    /\ ~Overlapping
    /\ handleSendPrompt

DragBranch ==
    /\ dragCount < MaxBranchDrags
    /\ \E id \in NodeIds, px \in DragXs, py \in DragYs :
          onNodesChange(id, px, py)

NextBranch ==
    \/ SendBranch
    \/ \E k \in fetching : FetchOk(k)
    \/ \E k \in streaming : StreamDone(k)
    \/ \E id \in NodeIds : onNodeClick(id)
    \/ DragBranch
    \/ LayoutPass

SpecBranch == Init /\ [][NextBranch]_vars

\* ---------------------------------------------------------------- claims
\* Vocabulary of the claims, stated on the tree and the store directly.
Placed(id) == \E i \in 1..Len(lockedPositions) : lockedPositions[i].id = id

PosOf(lp, id) ==
    LET e == CHOOSE e \in SeqToSet(lp) : e.id = id IN [x |-> e.x, y |-> e.y]

Pos(id) == PosOf(lockedPositions, id)

\* C1: no two placed nodes of a tree built by insertions alone overlap: for
\* every pair of distinct nodes, not (|dx| < 430 and |dy| < 160).
C1_NoOverlap ==
    \A i, j \in 1..Len(nodes) :
        (i < j /\ Placed(nodes[i].id) /\ Placed(nodes[j].id)) =>
            ~(/\ Abs(Pos(nodes[i].id).x - Pos(nodes[j].id).x)
                    < nodeWidth + minHorizontalGap
              /\ Abs(Pos(nodes[i].id).y - Pos(nodes[j].id).y)
                    < nodeHeight + overlapHeightGap)

\* The earliest-created child of the node with this id, as a set (empty when
\* it has no child)
FirstChildOf(ns, pid) ==
    {c \in SeqToSet(ns) :
        /\ c.parentId = pid
        /\ \A d \in SeqToSet(ns) : d.parentId = pid => c.timestamp <= d.timestamp}

\* C2: the first child of a node shares its parent's x and lies exactly
\* verticalSpacing below it, in every state reached by insertions and
\* layout passes.
C2_FirstChildBelowParent ==
    \A p \in SeqToSet(nodes) : \A c \in FirstChildOf(nodes, p.id) :
        (Placed(p.id) /\ Placed(c.id)) =>
            /\ Pos(c.id).x = Pos(p.id).x
            /\ Pos(c.id).y = Pos(p.id).y + verticalSpacing

\* Ids of the branch rooted at `a`: the node and everything below it,
\* found by walking the parent links upward from each node.
RECURSIVE AncestorIds(_, _, _)
AncestorIds(ns, id, fuel) ==
    IF fuel = 0 \/ ~(\E n \in SeqToSet(ns) : n.id = id) THEN {}
    ELSE LET pid == (CHOOSE n \in SeqToSet(ns) : n.id = id).parentId
         IN IF pid = NULL THEN {} ELSE {pid} \cup AncestorIds(ns, pid, fuel - 1)

BranchIds(ns, a) ==
    {a} \cup {n.id : n \in {m \in SeqToSet(ns) :
                              a \in AncestorIds(ns, m.id, Len(ns))}}

\* One recorded shift moved exactly the branch of e.id by e.amount in x
RigidShift(e, ns) ==
    /\ Len(e.after) = Len(e.before)
    /\ \A i \in 1..Len(e.before) :
        /\ e.after[i].id = e.before[i].id
        /\ e.after[i].y = e.before[i].y
        /\ e.after[i].x = IF e.before[i].id \in BranchIds(ns, e.id)
                          THEN e.before[i].x + e.amount
                          ELSE e.before[i].x

\* C3: every branch shift made by a layout pass moves the node and each of
\* its placed descendants by exactly the shift amount in x, leaves their y
\* unchanged, and leaves every node outside the branch where it was.
C3_SubtreeRigidity ==
    \A k \in 1..Len(shiftLog) : RigidShift(shiftLog[k], nodes)

\* A layout pass has just shifted a branch that holds a placed descendant
\* while another placed node stayed outside it
C3_Witness ==
    \E k \in 1..Len(shiftLog) :
        LET e == shiftLog[k]
            inBranch == {i \in 1..Len(e.before) :
                            e.before[i].id \in BranchIds(nodes, e.id)}
        IN /\ Cardinality(inBranch) >= 2
           /\ Cardinality(inBranch) < Len(e.before)

\* The node of the next state that a node of this state has become: a
\* node keeps its creation timestamp through an identifier rename.
Survives(n) == \E m \in SeqToSet(nodes') : m.timestamp = n.timestamp

After(n) == CHOOSE m \in SeqToSet(nodes') : m.timestamp = n.timestamp

PlacedNext(id) == \E i \in 1..Len(lockedPositions') : lockedPositions'[i].id = id

PosNext(id) == PosOf(lockedPositions', id)

DragOf(id) == \E px \in DragXs, py \in DragYs : onNodesChange(id, px, py)

C5_LayoutIdempotent ==
    LET first == layoutNodes(nodes, lockedPositions)
        second == layoutNodes(nodes, first.lp)
    IN /\ second.lp = first.lp
       /\ emitNodes(nodes, second.lp, activeNodeId)
              = emitNodes(nodes, first.lp, activeNodeId)

\* A snapshot whose first pass places a node and shifts a branch
C5_Witness ==
    /\ layoutDue
    /\ layoutNodes(nodes, lockedPositions).log # <<>>
    /\ Len(layoutNodes(nodes, lockedPositions).lp) > Len(lockedPositions)

\* ------------------------------------------------------------- deletion
\* The last confirmed deletion found the node in the tree
DeletedExisting ==
    /\ beforeDelete # <<>>
    /\ \E n \in SeqToSet(beforeDelete[1].nodes) : n.id = beforeDelete[1].id

\* The state is the one the deletion left, no layout pass has run since
JustDeleted == beforeDelete # <<>> /\ ~beforeDelete[1].relaid

DeletedIds == BranchIds(beforeDelete[1].nodes, beforeDelete[1].id)

Survivors ==
    LET gone == DeletedIds
    IN SelectSeq(beforeDelete[1].nodes, LAMBDA n : n.id \notin gone)

\* C6 as claimed: deleting an existing node removes exactly its branch from
\* the tree and from the store; every other entry of the store is still
\* there, unchanged, until the next layout pass.
C6_DeleteRemovesBranchOnly ==
    (DeletedExisting /\ JustDeleted) =>
        /\ nodes = Survivors
        /\ lockedPositions =
              SelectSeq(beforeDelete[1].lp, LAMBDA e : e.id \notin DeletedIds)

\* C6 as the code has it: the deletion removes exactly the branch from the
\* tree; from the store it removes every entry but the surviving root's,
\* which it leaves unchanged.
C6_DeleteKeepsRootOnly ==
    (DeletedExisting /\ JustDeleted) =>
        \A gone \in {DeletedIds} : \A kept \in {Survivors} :
            /\ nodes = kept
            /\ lockedPositions =
                  SelectSeq(beforeDelete[1].lp, LAMBDA e :
                      /\ e.id \notin gone
                      /\ \E n \in SeqToSet(kept) :
                            n.id = e.id /\ n.parentId = NULL)

\* A node and its child have just been deleted; the root and another
\* node survive, and the store holds the root's entry alone
C6_Witness ==
    /\ DeletedExisting /\ JustDeleted
    /\ Cardinality(DeletedIds) >= 2
    /\ Len(nodes) >= 2
    /\ Len(beforeDelete[1].lp) = Len(beforeDelete[1].nodes)
    /\ Len(lockedPositions) = 1

\* C7: the root's position after the deletion of a non-root node, and
\* after the layout pass that follows, is its position before the deletion.
C7_RootStable ==
    DeletedExisting =>
        \A r \in SeqToSet(beforeDelete[1].nodes) :
            (/\ r.parentId = NULL
             /\ r.id \notin DeletedIds
             /\ \E e \in SeqToSet(beforeDelete[1].lp) : e.id = r.id) =>
                /\ Placed(r.id)
                /\ Pos(r.id) = PosOf(beforeDelete[1].lp, r.id)

\* The layout pass after the deletion of a non-root node has run; the root
\* had been dragged, and another node survives with it
C7_Witness ==
    /\ DeletedExisting /\ beforeDelete[1].relaid
    /\ Len(nodes) >= 2
    /\ \E r \in SeqToSet(nodes) :
          r.parentId = NULL /\ r.id \in dragged /\ Placed(r.id)

\* C8: deleting an id that is not in the tree changes neither the nodes,
\* nor the active id, nor the store.
C8_DeleteMissingIsNoOp ==
    (JustDeleted /\ ~DeletedExisting) =>
        /\ nodes = beforeDelete[1].nodes
        /\ activeNodeId = beforeDelete[1].activeNodeId
        /\ lockedPositions = beforeDelete[1].lp

\* The deletion of an id that had been renamed away has just been
\* confirmed, in a tree of several placed nodes
C8_Witness ==
    /\ JustDeleted /\ ~DeletedExisting
    /\ Len(lockedPositions) >= 2

\* C9: when the deletion removes the active node, the most recently
\* created surviving node becomes active (none: null); otherwise the
\* active id stays.
C9_ActiveAfterDelete ==
    (DeletedExisting /\ JustDeleted) =>
        \A kept \in {Survivors} :
            IF beforeDelete[1].activeNodeId \in DeletedIds
            THEN IF kept = <<>>
                 THEN activeNodeId = NULL
                 ELSE \E n \in SeqToSet(kept) :
                         /\ n.id = activeNodeId
                         /\ \A m \in SeqToSet(kept) :
                               m.timestamp <= n.timestamp
            ELSE activeNodeId = beforeDelete[1].activeNodeId

\* The active node has just been deleted and two or more nodes survive
C9_Witness ==
    /\ DeletedExisting /\ JustDeleted
    /\ beforeDelete[1].activeNodeId \in DeletedIds
    /\ Len(Survivors) >= 2

\* C10 as claimed: a layout pass never changes the position of a node
\* whose entry was written by a drag.
C10_DraggedNeverMoved ==
    [][LayoutPass =>
          \A id \in dragged :
              PlacedNext(id) /\ PosNext(id) = Pos(id)]_vars

\* C10 as the code has it: a layout pass never removes or recomputes the
\* entry of a dragged node; it leaves its y unchanged and changes its x only
\* by shifting it right by a multiple of horizontalSpacing.
C10_DraggedOnlyShifted ==
    [][LayoutPass =>
          \A id \in dragged :
              /\ PlacedNext(id)
              /\ PosNext(id).y = Pos(id).y
              /\ PosNext(id).x >= Pos(id).x
              /\ (PosNext(id).x - Pos(id).x) % horizontalSpacing = 0]_vars

\* A layout pass has just shifted a dragged node
C10_Witness ==
    \E k \in 1..Len(shiftLog) : \E i \in 1..Len(shiftLog[k].before) :
        /\ shiftLog[k].before[i].id \in dragged
        /\ shiftLog[k].after[i].x # shiftLog[k].before[i].x

\* ---------------------------------------------------------------- rename
\* C11: when the stream completion replaces the temporary id -k of a placed
\* node by the permanent id k, the store afterwards holds under k exactly
\* the coordinate it held under -k and holds nothing under -k, and the
\* layout pass that follows leaves the coordinate of k as it is.
C11_RenameCarriesPosition ==
    [][\A k \in streaming :
          (StreamDone(k) /\ Placed(-k)) =>
              /\ PlacedNext(k)
              /\ PosNext(k) = Pos(-k)
              /\ ~PlacedNext(-k)
              /\ LET relaid == layoutNodes(nodes', lockedPositions').lp
                 IN /\ Has(relaid, k)
                    /\ PosOf(relaid, k) = PosOf(lockedPositions', k)]_vars

\* The stream completion has just renamed a placed node that is not the
\* root: its entry, re-inserted under the permanent id, is the last of the
\* store, and the layout pass after the rename is still to run
C11_Witness ==
    /\ layoutDue
    /\ activeNodeId > 0
    /\ Len(lockedPositions) >= 2
    /\ lockedPositions[Len(lockedPositions)].id = activeNodeId
    /\ lockedPositions[Len(lockedPositions)].y >= verticalSpacing
    /\ \E n \in SeqToSet(nodes) : n.id = activeNodeId

\* ------------------------------------------------------- the layout pass
\* What the layout pass does when it runs in this state
ThisPass == layoutNodes(nodes, lockedPositions)

\* C12: every layout pass finishes: the collision loop of each node it
\* places runs at most maxIterations passes, and the pass places each node
\* of the snapshot at most once, whatever the store holds (dragged
\* positions included).
C12_LayoutTerminates ==
    LET r == ThisPass
    IN /\ Len(r.placed) <= Len(nodes)
       /\ \A i \in 1..Len(r.placed) :
            /\ r.placed[i].resolved.iterations <= maxIterations
            /\ \E n \in SeqToSet(nodes) : n.id = r.placed[i].id
            /\ \A j \in 1..Len(r.placed) :
                  r.placed[j].id = r.placed[i].id => j = i

\* The pass about to run places a node whose collision loop shifts a
\* dragged node out of the way and then runs a second time
C12_Witness ==
    /\ layoutDue
    /\ \E i \in 1..Len(ThisPass.placed) :
          LET e == ThisPass.placed[i]
          IN /\ e.resolved.iterations >= 2
             /\ \E k \in 1..Len(e.resolved.log) :
                   e.resolved.log[k].id \in dragged

\* C13: in every reachable state the parent id of every node is null or the
\* id of a node of the same tree.
C13_ParentIntegrity ==
    \A n \in SeqToSet(nodes) : n.parentId = NULL \/ n.parentId \in NodeIds

\* C14: a snapshot in which some parent id names no node is rejected: the
\* layout pass assigns it no position and returns neither nodes nor edges.
C14_MalformedRejected ==
    ~C13_ParentIntegrity =>
        /\ ThisPass.placed = <<>>
        /\ emitNodes(nodes, ThisPass.lp, activeNodeId) = <<>>
        /\ emitEdges(nodes, activeNodeId) = <<>>

\* -------------------------------------------------------------- scenario
\* The tree of the scenario, in creation order: root R, its children A and
\* B, and C below A; and the trees the scenario passes through
TreeRA(ns) ==
    /\ Len(ns) >= 2
    /\ ns[1].parentId = NULL
    /\ ns[2].parentId = ns[1].id

TreeRAB(ns) == TreeRA(ns) /\ Len(ns) >= 3 /\ ns[3].parentId = ns[1].id

TreeRABC(ns) == TreeRAB(ns) /\ Len(ns) = 4 /\ ns[4].parentId = ns[2].id

TreeRAC(ns) == TreeRA(ns) /\ Len(ns) = 3 /\ ns[3].parentId = ns[2].id

Below(lp, child, parent) ==
    /\ Has(lp, child) /\ Has(lp, parent)
    /\ PosOf(lp, child) = [x |-> PosOf(lp, parent).x,
                           y |-> PosOf(lp, parent).y + verticalSpacing]

BesideBelow(lp, child, parent) ==
    /\ Has(lp, child) /\ Has(lp, parent)
    /\ PosOf(lp, child) = [x |-> PosOf(lp, parent).x + horizontalSpacing,
                           y |-> PosOf(lp, parent).y + verticalSpacing]

\* The last confirmed deletion removed B from the laid-out scenario tree
DeletedB ==
    /\ beforeDelete # <<>>
    /\ TreeRABC(beforeDelete[1].nodes)
    /\ beforeDelete[1].id = beforeDelete[1].nodes[3].id
    /\ Len(beforeDelete[1].lp) = 4

\* C15: once laid out, the tree R, A has A straight below R; the tree R, A,
\* B has in addition B one column to the right of R and one row below it;
\* the tree R, A, B, C has in addition C straight below A.  Deleting B from
\* that tree leaves the nodes R, A, C and, in the store, R alone at the
\* position it had; the layout pass that follows leaves R there and places
\* A straight below R and C straight below A.
C15_Scenario ==
    /\ (~layoutDue /\ TreeRA(nodes) /\ Len(nodes) = 2) =>
          Below(lockedPositions, nodes[2].id, nodes[1].id)
    /\ (~layoutDue /\ TreeRAB(nodes) /\ Len(nodes) = 3) =>
          /\ Below(lockedPositions, nodes[2].id, nodes[1].id)
          /\ BesideBelow(lockedPositions, nodes[3].id, nodes[1].id)
    /\ (~layoutDue /\ TreeRABC(nodes)) =>
          /\ Below(lockedPositions, nodes[2].id, nodes[1].id)
          /\ BesideBelow(lockedPositions, nodes[3].id, nodes[1].id)
          /\ Below(lockedPositions, nodes[4].id, nodes[2].id)
    /\ DeletedB =>
          /\ nodes = SelectSeq(beforeDelete[1].nodes,
                               LAMBDA n : n.id # beforeDelete[1].id)
          /\ TreeRAC(nodes)
          /\ Placed(nodes[1].id)
          /\ Pos(nodes[1].id) = PosOf(beforeDelete[1].lp, nodes[1].id)
          /\ IF beforeDelete[1].relaid
             THEN /\ Below(lockedPositions, nodes[2].id, nodes[1].id)
                  /\ Below(lockedPositions, nodes[3].id, nodes[2].id)
             ELSE ~Placed(nodes[2].id) /\ ~Placed(nodes[3].id)

\* B has been deleted from the laid-out scenario tree and the layout pass
\* after the deletion has placed A and C again
C15_Witness ==
    /\ DeletedB
    /\ beforeDelete[1].relaid
    /\ Len(lockedPositions) = 3

AfterPlacement(r, i) ==
    IF i < Len(r.placed) THEN r.placed[i + 1].before ELSE r.lp

\* Some entry of the store other than the node's own overlaps the position
OverlapRemains(lp, id, pos) ==
    \E k \in 1..Len(lp) : lp[k].id # id /\ wouldOverlap(pos, lp[k])

\* C17: the ceiling of the collision loop is not fatal: every node the
\* pass sets out to place is stored at its candidate in that pass, whether
\* or not the loop stopped with an overlap remaining, and the pass goes on
\* to the end: it leaves every root, and every node whose parent has a
\* position, with a position.
C17_CeilingNotFatal ==
    LET r == ThisPass
    IN /\ \A i \in 1..Len(r.placed) :
            /\ Has(AfterPlacement(r, i), r.placed[i].id)
            /\ PosOf(AfterPlacement(r, i), r.placed[i].id) = r.placed[i].pos
       /\ \A n \in SeqToSet(nodes) :
            (n.parentId = NULL \/ Has(r.lp, n.parentId)) => Has(r.lp, n.id)

\* The pass about to run places a node whose collision loop stops at the
\* ceiling while a stored node still overlaps the candidate
C17_Witness ==
    /\ layoutDue
    /\ \E e \in SeqToSet(ThisPass.placed) :
          /\ e.resolved.iterations = maxIterations
          /\ e.resolved.hasOverlap
          /\ OverlapRemains(e.resolved.lp, e.id, e.pos)

\* --------------------------------------------------- the branch candidate
\* The node of the snapshot with this id
NodeOf(id) == CHOOSE n \in SeqToSet(nodes) : n.id = id

\* The descendants of node p that hold a position in the store lp
PlacedDescendants(p, lp) ==
    {d \in SeqToSet(getAllDescendants(p, nodes)) : Has(lp, d)}

\* The rightmost x in lp among node p and its placed descendants
RightmostOfBranch(p, lp) ==
    LET xs == {PosOf(lp, d).x : d \in {p} \cup PlacedDescendants(p, lp)}
    IN CHOOSE x \in xs : \A z \in xs : z <= x

\* C18: a node placed as a branch (sibling index i > 0) under the placed
\* parent p is locked at x = max(p.x + i * 450, r + 450), y = p.y + 180,
\* with r the rightmost x among p and the placed descendants of p when the
\* placement starts; and once it is locked it lies at least 450 to the
\* right of every descendant of p that was placed before it.
C18_BranchCandidate ==
    \A r \in {ThisPass} : \A i \in 1..Len(r.placed) :
        \A e \in {r.placed[i]} :
            e.siblingIndex > 0 =>
                LET p == NodeOf(e.id).parentId
                    pp == PosOf(e.before, p)
                    after == AfterPlacement(r, i)
                IN /\ PosOf(after, e.id) =
                         [x |-> Max(pp.x + e.siblingIndex * horizontalSpacing,
                                    RightmostOfBranch(p, e.before)
                                        + horizontalSpacing),
                          y |-> pp.y + verticalSpacing]
                   /\ \A d \in PlacedDescendants(p, e.before) :
                          PosOf(after, e.id).x
                              >= PosOf(after, d).x + horizontalSpacing

\* ------------------------------------------ ancestor-sibling displacement
\* The ancestors of a node: its parent and the parents above it, as far as
\* the snapshot has them
RECURSIVE AncestorsOf(_)
AncestorsOf(id) ==
    IF \E n \in SeqToSet(nodes) :
          /\ n.id = id
          /\ n.parentId # NULL
          /\ \E m \in SeqToSet(nodes) : m.id = n.parentId
    THEN {NodeOf(id).parentId} \cup AncestorsOf(NodeOf(id).parentId)
    ELSE {}

\* The nodes sharing the parent of node a, a excluded
SiblingsOf(a) ==
    {m.id : m \in {m \in SeqToSet(nodes) :
                      m.parentId = NodeOf(a).parentId /\ m.id # a}}

\* A node and its full descendant set
BranchOf(s) == {s} \cup SeqToSet(getAllDescendants(s, nodes))

\* How far the displacement step of the placement e moved node d
ShiftedBy(e, d) == PosOf(e.displaced.lp, d).x - PosOf(e.before, d).x

\* The displacement step of the placement e, for the ancestors As and the
\* threshold T: each placed sibling of each ancestor that was right of T
\* has moved right by 450 with every placed node of its branch, y
\* unchanged; the other siblings and the ancestors have not moved
Displacement(e, As, T) ==
    /\ \A a \in As : \A s \in SiblingsOf(a) :
          Has(e.before, s) =>
              IF PosOf(e.before, s).x > T
              THEN \A d \in BranchOf(s) :
                      Has(e.before, d) =>
                          /\ ShiftedBy(e, d) = horizontalSpacing
                          /\ PosOf(e.displaced.lp, d).y = PosOf(e.before, d).y
              ELSE ShiftedBy(e, s) = 0
    /\ \A a \in As : Has(e.before, a) => ShiftedBy(e, a) = 0

CandidateOf(e) ==
    LET p == NodeOf(e.id).parentId
        pp == PosOf(e.before, p)
    IN [x |-> IF e.siblingIndex = 0 THEN pp.x
              ELSE Max(pp.x + e.siblingIndex * horizontalSpacing,
                       RightmostOfBranch(p, e.before) + horizontalSpacing),
        y |-> pp.y + verticalSpacing]

\* C20: collision resolution does not move the candidate of the node being
\* placed: the node is locked at the candidate computed before the loop,
\* and the loop only shifts stored nodes right by multiples of 450, y
\* unchanged; and when the loop stops before the ceiling of maxIterations
\* passes, no other stored node overlaps the position the node is locked at.
C20_CollisionPostCondition ==
    \A r \in {ThisPass} : \A i \in 1..Len(r.placed) :
        \A e \in {r.placed[i]} :
            NodeOf(e.id).parentId # NULL =>
                /\ ~Has(e.resolved.lp, e.id)
                /\ PosOf(AfterPlacement(r, i), e.id) = CandidateOf(e)
                /\ \A k \in 1..Len(e.displaced.lp) :
                      /\ e.resolved.lp[k].id = e.displaced.lp[k].id
                      /\ e.resolved.lp[k].y = e.displaced.lp[k].y
                      /\ e.resolved.lp[k].x >= e.displaced.lp[k].x
                      /\ (e.resolved.lp[k].x - e.displaced.lp[k].x)
                             % horizontalSpacing = 0
                /\ e.resolved.iterations < maxIterations =>
                      ~OverlapRemains(AfterPlacement(r, i), e.id, e.pos)

\* The pass about to run places a node whose collision loop shifts a
\* stored node in two passes or more and stops before the ceiling
C20_Witness ==
    /\ layoutDue
    /\ \E e \in SeqToSet(ThisPass.placed) :
          /\ NodeOf(e.id).parentId # NULL
          /\ e.resolved.iterations > 2
          /\ e.resolved.iterations < maxIterations
          /\ e.resolved.lp # e.displaced.lp

\* ------------------------------------------------- deletion and re-layout
\* C21: right after the deletion of an existing node the store holds at
\* most one entry, the surviving root's, as it was before the deletion;
\* so the next layout pass takes every other surviving node (dragged or
\* not) as unplaced and runs its placement again, storing a position for
\* each whose parent has one.
C21_DeleteClearsStore ==
    (DeletedExisting /\ JustDeleted) =>
        /\ Len(lockedPositions) <= 1
        /\ \A e \in SeqToSet(lockedPositions) :
              /\ \E n \in SeqToSet(nodes) : n.id = e.id /\ n.parentId = NULL
              /\ e \in SeqToSet(beforeDelete[1].lp)
        /\ \A r \in {ThisPass} : \A n \in SeqToSet(nodes) :
              n.parentId # NULL =>
                  /\ n \in SeqToSet(Unplaced(sortByTimestamp(nodes),
                                             lockedPositions))
                  /\ Has(r.lp, n.parentId) =>
                        \E e \in SeqToSet(r.placed) : e.id = n.id

\* A node has just been deleted; the root keeps its entry, and a surviving
\* node that had been dragged has lost the entry the drag wrote
C21_Witness ==
    /\ DeletedExisting /\ JustDeleted
    /\ Len(lockedPositions) = 1
    /\ \E n \in SeqToSet(nodes) : \E px \in DragXs, py \in DragYs :
          /\ n.parentId # NULL
          /\ [id |-> n.id, x |-> px + (nodeWidth \div 2), y |-> py]
                \in SeqToSet(beforeDelete[1].lp)
          /\ px + (nodeWidth \div 2) # 0

\* The store an empty engine holds after the first k nodes of the list have
\* been inserted one at a time, with a layout pass after each insertion
RECURSIVE Incremental(_, _)
Incremental(sortedNodes, k) ==
    IF k = 0 THEN <<>>
    ELSE layoutNodes(SubSeq(sortedNodes, 1, k),
                     Incremental(sortedNodes, k - 1)).lp

\* The position of a node in the store lp relative to the node at origin
RelativeTo(lp, origin, id) ==
    [x |-> PosOf(lp, id).x - PosOf(lp, origin).x,
     y |-> PosOf(lp, id).y - PosOf(lp, origin).y]

\* The layout pass that follows the last confirmed deletion has run
Relaid == DeletedExisting /\ beforeDelete[1].relaid

\* C22: after a deletion and the re-layout that follows, the surviving
\* nodes that have a position are those an empty engine places when the
\* same nodes are inserted one at a time in creation order with a layout
\* pass after each, and their positions relative to the root are the same.
C22_RelayoutEquivalence ==
    Relaid =>
        \A inc \in {Incremental(sortByTimestamp(nodes), Len(nodes))} :
            /\ Keys(inc) = Keys(lockedPositions)
            /\ \A root \in SeqToSet(nodes) :
                  (root.parentId = NULL /\ Placed(root.id)) =>
                      \A id \in Keys(lockedPositions) :
                          RelativeTo(lockedPositions, root.id, id)
                              = RelativeTo(inc, root.id, id)

\* The re-layout after a deletion has just placed two surviving nodes or
\* more in one pass, one of them as a branch to the right of the root
C22_Witness ==
    /\ Relaid
    /\ Len(lockedPositions) >= 3
    /\ \E root \in SeqToSet(nodes) :
          /\ root.parentId = NULL /\ Placed(root.id)
          /\ \E id \in Keys(lockedPositions) :
                Pos(id).x > Pos(root.id).x

\* ------------------------------------------------------------ consistency
NodeIdsNext == {nodes'[i].id : i \in 1..Len(nodes')}

\* C23: after every layout pass the key set of the store is the set of node
\* ids of the tree: every node has a position, and no entry is left for an
\* id that is not in the tree.
C23_StoreMatchesTree ==
    [][LayoutPass => Keys(lockedPositions') = NodeIdsNext]_vars

\* C24: in every reachable state the active node id is null or the id of a
\* node of the tree.
C24_ActiveIdValid == activeNodeId = NULL \/ activeNodeId \in NodeIds

\* ---------------------------------------------------------------- order
\* C25: without drags, siblings stand left to right in creation order: of
\* two placed nodes with the same parent id, the one created first has the
\* smaller x.
C25_SiblingOrder ==
    \A i, j \in 1..Len(nodes) :
        (/\ nodes[i].parentId # NULL
         /\ nodes[i].parentId = nodes[j].parentId
         /\ nodes[i].timestamp < nodes[j].timestamp
         /\ Placed(nodes[i].id) /\ Placed(nodes[j].id)) =>
            Pos(nodes[i].id).x < Pos(nodes[j].id).x

\* Every placed node whose parent is placed stands one row below it
ChildBelowParent ==
    \A i \in 1..Len(nodes) :
        (/\ nodes[i].parentId # NULL
         /\ Placed(nodes[i].id) /\ Placed(nodes[i].parentId)) =>
            Pos(nodes[i].id).y = Pos(nodes[i].parentId).y + verticalSpacing

\* C26: without drags, every non-root node (first child or branch) has the
\* y of its parent plus 180, in every state: the tree starts empty, and the
\* relation holds after every step that changes the tree or the store; and
\* a layout pass that writes to the store never changes the y of a node
\* that has a position.
C26_ChildBelowParent ==
    [][/\ (nodes' # nodes \/ lockedPositions' # lockedPositions) =>
             ChildBelowParent'
       /\ (lockedPositions' # lockedPositions /\ LayoutPass) =>
             \A id \in Keys(lockedPositions) :
                 PlacedNext(id) /\ PosNext(id).y = Pos(id).y]_vars

\* A layout pass has just shifted a placed node, in a tree that holds a
\* branch (a node one row below its parent and to the right of it)
C26_Witness ==
    /\ shiftLog # <<>>
    /\ \E i \in 1..Len(nodes) :
          /\ nodes[i].parentId # NULL
          /\ Placed(nodes[i].id) /\ Placed(nodes[i].parentId)
          /\ Pos(nodes[i].id).x > Pos(nodes[i].parentId).x

\* The edges a layout pass on the current tree returns
EdgesNow == emitEdges(nodes, activeNodeId)

\* C27: a layout pass emits exactly one edge parent -> child for each node
\* with a parent id and none for a root; an edge is animated exactly when
\* its target is the active node, so at most one edge is animated, and none
\* is when the active node is a root or no node is active.
C27_EdgeDerivation ==
    \A edges \in {EdgesNow} :
        /\ \A n \in SeqToSet(nodes) :
              Cardinality({i \in 1..Len(edges) : edges[i].target = n.id})
                  = IF n.parentId = NULL THEN 0 ELSE 1
        /\ \A i \in 1..Len(edges) :
              /\ \E n \in SeqToSet(nodes) :
                    n.id = edges[i].target /\ n.parentId = edges[i].source
              /\ edges[i].animated <=> edges[i].target = activeNodeId
        /\ Cardinality({i \in 1..Len(edges) : edges[i].animated}) <= 1
        /\ (\/ activeNodeId = NULL
            \/ \E n \in SeqToSet(nodes) :
                   n.id = activeNodeId /\ n.parentId = NULL) =>
               \A i \in 1..Len(edges) : ~edges[i].animated

\* A tree with a root and two edges, one of them animated and one not
C27_Witness ==
    /\ \E n \in SeqToSet(nodes) : n.parentId = NULL
    /\ Len(EdgesNow) >= 2
    /\ \E i, j \in 1..Len(EdgesNow) :
          EdgesNow[i].animated /\ ~EdgesNow[j].animated

\* The ids reachable from the ids of S by following parent ids
RECURSIVE ParentClosure(_)
ParentClosure(S) ==
    LET up == S \cup {n.parentId : n \in {m \in SeqToSet(nodes) :
                                             m.id \in S /\ m.parentId # NULL}}
    IN IF up = S THEN S ELSE ParentClosure(up)

\* The active node and its ancestors
ActivePath == IF activeNodeId = NULL THEN {} ELSE ParentClosure({activeNodeId})

\* C28: the upward walk returns for every node of the tree, also when a
\* parent id names no node; a node is flagged as in the active path exactly
\* when it is the active node or an ancestor of it, and no node is flagged
\* when no node is active.
C28_ActivePathFlag ==
    \A path \in {ActivePath} : \A n \in SeqToSet(nodes) :
        \A flag \in {isNodeInActivePath(n.id, nodes, activeNodeId)} :
            /\ flag.returns
            /\ flag.value <=> n.id \in path
            /\ activeNodeId = NULL => ~flag.value

\* The active node has a parent in the tree, some node is off the active
\* path, and some parent id names no node
C28_Witness ==
    /\ \E n, p \in SeqToSet(nodes) : n.id = activeNodeId /\ p.id = n.parentId
    /\ \E n \in SeqToSet(nodes) : n.id \notin ActivePath
    /\ \E n \in SeqToSet(nodes) : n.parentId # NULL /\ n.parentId \notin NodeIds
    /\ ~layoutDue

\* The nodes the layout pass of this step returns
EmittedNext == emitNodes(nodes', lockedPositions', activeNodeId')

\* A layout pass emits each placed node at (stored.x - nodeWidth/2,
\* stored.y), and a drag to (px, py) stores (px + nodeWidth/2, py)
AnchorConversions ==
    /\ LayoutPass =>
          \A emitted \in {EmittedNext} : \A i \in 1..Len(emitted) :
              PlacedNext(emitted[i].id) =>
                  /\ emitted[i].x = PosNext(emitted[i].id).x - nodeWidth \div 2
                  /\ emitted[i].y = PosNext(emitted[i].id).y
    /\ dragCount' = dragCount + 1 =>
          \E e \in SeqToSet(lastDrag') :
              /\ \A f \in SeqToSet(lastDrag) :
                    f.id # e.id => f \in SeqToSet(lastDrag')
              /\ PosNext(e.id).x = e.x + nodeWidth \div 2
              /\ PosNext(e.id).y = e.y

\* C29 as stated: a layout pass emits each node at (stored.x - nodeWidth/2,
\* stored.y) and a drag to (px, py) stores (px + nodeWidth/2, py); hence the
\* first layout pass after a drag of a node to p emits that node at
\* exactly p.
C29_AnchorRoundTrip ==
    [][/\ AnchorConversions
       /\ LayoutPass =>
             \A emitted \in {EmittedNext} : \A e \in SeqToSet(lastDrag) :
                 \A i \in 1..Len(emitted) :
                     emitted[i].id = e.id =>
                         emitted[i].x = e.x /\ emitted[i].y = e.y]_vars

\* C29 amended: the two conversions are as stated.  The first layout pass
\* after a drag of a node to p emits the node at exactly p when the pass
\* shifts nothing and no deletion has cleared the node's entry; when the
\* entry is still there, the pass emits the node at the y of p and at the
\* x of p plus a non-negative multiple of 450.
C29_AnchorRoundTripUnlessShifted ==
    [][/\ AnchorConversions
       /\ LayoutPass =>
             \A emitted \in {EmittedNext} : \A e \in SeqToSet(lastDrag) :
                 \A i \in 1..Len(emitted) :
                     (emitted[i].id = e.id /\ Placed(e.id)) =>
                         /\ emitted[i].y = e.y
                         /\ emitted[i].x >= e.x
                         /\ (emitted[i].x - e.x) % horizontalSpacing = 0
                         /\ shiftLog' = <<>> => emitted[i].x = e.x]_vars

\* A node has been dragged, a prompt has been sent since, and the layout
\* pass that is due shifts the dragged node
C29_Witness ==
    /\ layoutDue
    /\ \E e \in SeqToSet(lastDrag) : \E shift \in SeqToSet(ThisPass.log) :
          /\ Has(shift.before, e.id)
          /\ Get(shift.after, e.id).x > Get(shift.before, e.id).x

\* C30: sending a prompt (the one step that takes the next prompt number)
\* appends exactly one node, new to the tree, whose parent id is the id
\* that was active (null when none was), makes it the active node, and
\* leaves every existing node and the whole Position Store as they were.
C30_SendAppendsUnderActive ==
    [][nextId' = nextId + 1 =>
          /\ Len(nodes') = Len(nodes) + 1
          /\ SubSeq(nodes', 1, Len(nodes)) = nodes
          /\ nodes'[Len(nodes')].id \notin NodeIds
          /\ nodes'[Len(nodes')].parentId = activeNodeId
          /\ activeNodeId' = nodes'[Len(nodes')].id
          /\ lockedPositions' = lockedPositions]_vars

\* A prompt has just been sent under an active node of a tree that has
\* stored positions; the layout pass has not placed the new node yet
C30_Witness ==
    /\ layoutDue
    /\ Len(nodes) >= 2
    /\ nodes[Len(nodes)].id = -(nextId - 1)
    /\ activeNodeId = nodes[Len(nodes)].id
    /\ nodes[Len(nodes)].parentId \in NodeIds
    /\ ~Placed(activeNodeId)
    /\ lockedPositions # <<>>

\* C31: a layout pass keeps every entry it finds in the Position Store and
\* never decreases its x; each call of shiftBranchRight it makes is by
\* horizontalSpacing, so the x of an entry after the pass is its x before
\* plus a non-negative multiple of 450.
C31_RightwardOnly ==
    [][LayoutPass =>
          /\ \A id \in Keys(lockedPositions) :
                /\ PlacedNext(id)
                /\ PosNext(id).x >= Pos(id).x
                /\ (PosNext(id).x - Pos(id).x) % horizontalSpacing = 0
          /\ \A shift \in SeqToSet(shiftLog') :
                /\ shift.amount = horizontalSpacing
                /\ \A i \in 1..Len(shift.before) :
                      shift.after[i].x - shift.before[i].x
                          \in {0, horizontalSpacing}]_vars

\* A layout pass has just moved one node right twice: the node stands 900
\* or more to the right of where the pass found it
C31_Witness ==
    /\ Len(shiftLog) >= 2
    /\ \E e \in SeqToSet(shiftLog[1].before) :
          /\ Placed(e.id)
          /\ Pos(e.id).x >= e.x + 2 * horizontalSpacing

\* The present id of the node under which n was sent: the parent id n
\* stores or, when that is a temporary id the rename has since replaced,
\* the permanent id that replaced it
ParentNow(n) ==
    IF n.parentId < 0 /\ n.parentId \notin NodeIds /\ -n.parentId \in NodeIds
    THEN -n.parentId ELSE n.parentId

C33_DragWritesOneEntry ==
    [][dragCount' = dragCount + 1 =>
          /\ nodes' = nodes
          /\ activeNodeId' = activeNodeId
          /\ \E e \in SeqToSet(lastDrag') :
                /\ PosNext(e.id).x = e.x + nodeWidth \div 2
                /\ PosNext(e.id).y = e.y
                /\ Keys(lockedPositions') = Keys(lockedPositions) \cup {e.id}
                /\ \A other \in Keys(lockedPositions) \ {e.id} :
                      PosNext(other) = Pos(other)]_vars

\* A node with a placed descendant has just been dragged onto a position
\* that overlaps the position of another node, and no layout pass has run
\* since
C33_Witness ==
    \E e \in SeqToSet(lastDrag) :
        /\ Placed(e.id)
        /\ Pos(e.id).x = e.x + nodeWidth \div 2 /\ Pos(e.id).y = e.y
        /\ \E d \in SeqToSet(getAllDescendants(e.id, nodes)) : Placed(d)
        /\ \E other \in Keys(lockedPositions) \ {e.id} :
              wouldOverlap(Pos(e.id), Pos(other))

\* The ids a step removes from the tree; a rename removes none
RemovedIds ==
    {id \in NodeIds : id \notin NodeIdsNext /\ -id \notin NodeIdsNext}

\* C34: the step that opens the dialog records a node of the tree as the
\* pending deletion and changes neither the tree nor the active node nor
\* the Position Store; a step removes nodes only while a deletion is
\* pending, it closes the dialog, and it removes exactly the pending node
\* and its descendants; a cancel closes the dialog and leaves the tree, the
\* active node and the Position Store as they were.
C34_DeleteNeedsConfirm ==
    [][/\ (nodeToDelete = NULL /\ nodeToDelete' # NULL) =>
             /\ nodeToDelete' \in NodeIds
             /\ UNCHANGED <<nodes, activeNodeId, lockedPositions>>
       /\ RemovedIds # {} =>
             /\ nodeToDelete # NULL /\ nodeToDelete' = NULL
             /\ RemovedIds = {nodeToDelete} \cup
                    SeqToSet(componentGetAllDescendants(nodeToDelete, nodes))
       /\ CancelDelete =>
             /\ nodeToDelete' = NULL
             /\ UNCHANGED <<nodes, activeNodeId, lockedPositions>>]_vars

\* The dialog is open on a placed node that has a descendant, in a tree
\* with a node outside that branch
C34_Witness ==
    /\ nodeToDelete \in NodeIds
    /\ Placed(nodeToDelete)
    /\ componentGetAllDescendants(nodeToDelete, nodes) # <<>>
    /\ \E n \in SeqToSet(nodes) : n.parentId = NULL /\ n.id # nodeToDelete

====
